---- MODULE Spec2Model ----
(***************************************************************************)
(* Model of scripts/citations.py: the batch job that discovers Supreme     *)
(* Court decisions, fetches each decision's PDF, extracts and aggregates   *)
(* the legal citations, resolves every citation key through the memoized   *)
(* lookup query_legal_citation and writes "cites" statements.              *)
(***************************************************************************)
EXTENDS Integers, Sequences, FiniteSets, TLC

\* ------------------------------------------------------------------ bounds
MaxDecisions == 2
MaxPairs == 2
MaxLookupRows == 2

\* ------------------------------------------------------- program constants
\* @lru_cache(maxsize=2**15)
maxsize == 32768

\* PROPS[...] entries used by the main loop
P_ref_url == "P854"
P_title == "P1476"
P_date == "P577"
P_retrieved == "P813"
P_cites == "P2860"
P_page == "P304"

\* Python's None, and a name that has not been assigned yet
None == "None"
Unbound == "<unbound>"

\* ----------------------------------------------------------------- helpers
Last(s) == s[Len(s)]

Range(s) == {s[i] : i \in 1..Len(s)}

Max(S) == CHOOSE x \in S : \A y \in S : y <= x

\* An entity URI as WDQS returns it, split at its '/' separators.
EntityUri(id) == <<"http:", "", "www.wikidata.org", "entity", id>>

\* str.rpartition('/')[2]: the part after the last '/'
rpartition2(uri) == uri[Len(uri)]

\* datetime.utcnow().strftime('+%Y-%m-%dT00:00:00Z')
utcnow == "+2021-03-01T00:00:00Z"

\* ----------------------------------------- regular expressions (lines 52-61)
\* A text is a string; positions count from 1. A matching step takes the
\* position it starts at and gives the position after what it matched, or 0
\* when it does not match; a step that starts at 0 gives 0.
\* \d
Digit == {"0", "1", "2", "3", "4", "5", "6", "7", "8", "9"}

\* The texts are over the characters U+0000 to U+00FF.
\* \s of a str pattern: the characters str.isspace() holds of, which are
\* space, \t, \n, \r, \f, U+000B, U+001C to U+001F, U+0085 and U+00A0
Space == {" ", "\t", "\n", "\r", "\f", "", "", "", "", "", "", " "}

\* the characters of \w other than the digits of \d and "_": the letters, and
\* the numeric characters that are no decimal digits (U+00B2, U+00BD, ...)
Letter == {"a", "b", "c", "d", "e", "f", "g", "h", "i", "j", "k", "l", "m", "n", "o", "p",
           "q", "r", "s", "t", "u", "v", "w", "x", "y", "z",
           "A", "B", "C", "D", "E", "F", "G", "H", "I", "J", "K", "L", "M", "N", "O", "P",
           "Q", "R", "S", "T", "U", "V", "W", "X", "Y", "Z",
           "ª", "²", "³", "µ", "¹", "º", "¼", "½", "¾", "À", "Á", "Â", "Ã", "Ä", "Å", "Æ",
           "Ç", "È", "É", "Ê", "Ë", "Ì", "Í", "Î", "Ï", "Ð", "Ñ", "Ò", "Ó", "Ô", "Õ", "Ö",
           "Ø", "Ù", "Ú", "Û", "Ü", "Ý", "Þ", "ß", "à", "á", "â", "ã", "ä", "å", "æ", "ç",
           "è", "é", "ê", "ë", "ì", "í", "î", "ï", "ð", "ñ", "ò", "ó", "ô", "õ", "ö", "ø",
           "ù", "ú", "û", "ü", "ý", "þ", "ÿ"}

\* \w of a str pattern
WordChar == Letter \cup Digit \cup {"_"}

\* the character at position i, or "" outside the text
CharAt(text, i) == IF 1 <= i /\ i <= Len(text) THEN SubSeq(text, i, i) ELSE ""

\* the literal s
Lit(text, i, s) ==
    IF i > 0 /\ i + Len(s) - 1 <= Len(text) /\ SubSeq(text, i, i + Len(s) - 1) = s
    THEN i + Len(s) ELSE 0

\* one character of the class C
OneOf(text, i, C) == IF i > 0 /\ CharAt(text, i) \in C THEN i + 1 ELSE 0

\* C*, greedy
RECURSIVE Star(_, _, _)
Star(text, i, C) ==
    IF i = 0 THEN 0
    ELSE IF CharAt(text, i) \in C THEN Star(text, i + 1, C) ELSE i

\* C+, greedy
Plus(text, i, C) == Star(text, OneOf(text, i, C), C)

\* C{n}
Times(text, i, C, n) ==
    IF i > 0 /\ \A j \in i..(i + n - 1) : CharAt(text, j) \in C THEN i + n ELSE 0

\* s?
Opt(text, i, s) == IF Lit(text, i, s) > 0 THEN Lit(text, i, s) ELSE i

\* \w+\d+ : \w+ takes the whole run of word characters and gives characters
\* back until a digit follows it, so the match ends after the last digit of
\* the run that is not its first character
WordThenDigits(text, i) ==
    LET n == Plus(text, i, WordChar)
        qs == {q \in (i + 1)..(n - 1) : CharAt(text, q) \in Digit}
    IN IF n = 0 \/ qs = {} THEN 0 ELSE Max(qs) + 1

\* Mutant of sub_spaces: the whitespace is kept as it is.
sub_spaces_Kept(s) == s

\* re.sub('\s+', ' ', s)
RECURSIVE sub_spaces(_)
sub_spaces(s) ==
    IF s = "" THEN ""
    ELSE IF CharAt(s, 1) \in Space
    THEN " " \o sub_spaces(SubSeq(s, Star(s, 1, Space), Len(s)))
    ELSE SubSeq(s, 1, 1) \o sub_spaces(SubSeq(s, 2, Len(s)))

\* a match object: the position after the match and the pair yielded for it
Match(end, key, page) == [end |-> end, key |-> key, page |-> page]

NoMatch == Match(0, None, None)

\* (?:\s+s\.\s+(\d+))? at position i: the position after it and the group
PageGroup(text, i) ==
    LET c == Plus(text, Lit(text, Plus(text, i, Space), "s."), Space)
        d == Plus(text, c, Digit)
    IN IF d > 0 THEN [end |-> d, page |-> SubSeq(text, c, d - 1)]
       ELSE [end |-> i, page |-> None]

\* \d{4}\/(?:\d{2}|2000): at position i; the first alternative that lets the
\* colon match is taken
Session(text, i) ==
    LET c == Lit(text, Times(text, i, Digit, 4), "/")
        first == Lit(text, Times(text, c, Digit, 2), ":")
    IN IF first > 0 THEN first ELSE Lit(text, Lit(text, c, "2000"), ":")

\* line 52: NJA\s+\d{4}\s+s\.?\s+\d+(\s+I*V)?
\* line 53: the whole match with its whitespace runs replaced by one space
NJAMatch(text, i) ==
    LET a == Plus(text, Lit(text, i, "NJA"), Space)
        b == Plus(text, Times(text, a, Digit, 4), Space)
        c == Plus(text, Opt(text, Lit(text, b, "s"), "."), Space)
        d == Plus(text, c, Digit)
        v == Lit(text, Star(text, Plus(text, d, Space), {"I"}), "V")
        end == IF v > 0 THEN v ELSE d
    IN IF d = 0 THEN NoMatch
       ELSE Match(end, sub_spaces(SubSeq(text, i, end - 1)), None)

\* Mutant of PropMatch: the key is cut from the whole match, page marker and
\* page included.
PropMatch_KeepsPage(text, i) ==
    LET a == Lit(text, OneOf(text, i, {"p", "P"}), "rop")
        G1(k) == Plus(text, k, Space)
        End1(k) == Plus(text, Session(text, G1(k)), Digit)
        j == IF End1(Lit(text, a, "osition")) > 0 THEN Lit(text, a, "osition")
             ELSE IF End1(Lit(text, a, ".")) > 0 THEN Lit(text, a, ".")
             ELSE a
        g == PageGroup(text, End1(j))
    IN IF End1(j) = 0 THEN NoMatch
       ELSE Match(g.end, "Prop. " \o SubSeq(text, G1(j), g.end - 1), g.page)

\* line 54: [pP]rop(?:osition|\.)?\s+(\d{4}\/(?:\d{2}|2000):\d+)(?:\s+s\.\s+(\d+))?
\* line 55: 'Prop. ' + m.group(1), m.group(2)
PropMatch(text, i) ==
    LET a == Lit(text, OneOf(text, i, {"p", "P"}), "rop")
        G1(k) == Plus(text, k, Space)
        End1(k) == Plus(text, Session(text, G1(k)), Digit)
        j == IF End1(Lit(text, a, "osition")) > 0 THEN Lit(text, a, "osition")
             ELSE IF End1(Lit(text, a, ".")) > 0 THEN Lit(text, a, ".")
             ELSE a
        g == PageGroup(text, End1(j))
    IN IF End1(j) = 0 THEN NoMatch
       ELSE Match(g.end, "Prop. " \o SubSeq(text, G1(j), End1(j) - 1), g.page)

\* line 56: (SOU\s+\d{4}:\d+)(?:\s+s\.\s+(\d+))?
\* line 57: group 1 with its whitespace runs replaced by one space, m.group(2)
SOUMatch(text, i) ==
    LET a == Plus(text, Lit(text, i, "SOU"), Space)
        end1 == Plus(text, Lit(text, Times(text, a, Digit, 4), ":"), Digit)
        g == PageGroup(text, end1)
    IN IF end1 = 0 THEN NoMatch
       ELSE Match(g.end, sub_spaces(SubSeq(text, i, end1 - 1)), g.page)

\* line 58: [bB]et(?:Ã¤nkande|\.)?\s+(\d{4}\/(?:\d{2}|2000):\w+\d+)(?:\s+s\.\s+(\d+))?
\* line 59: 'bet. ' + m.group(1), m.group(2)
BetMatch(text, i) ==
    LET a == Lit(text, OneOf(text, i, {"b", "B"}), "et")
        G1(k) == Plus(text, k, Space)
        End1(k) == WordThenDigits(text, Session(text, G1(k)))
        j == IF End1(Lit(text, a, "Ã¤nkande")) > 0 THEN Lit(text, a, "Ã¤nkande")
             ELSE IF End1(Lit(text, a, ".")) > 0 THEN Lit(text, a, ".")
             ELSE a
        g == PageGroup(text, End1(j))
    IN IF End1(j) = 0 THEN NoMatch
       ELSE Match(g.end, "bet. " \o SubSeq(text, G1(j), End1(j) - 1), g.page)

\* line 60: [mM]ot(?:ion|\.)?\s+(\d{4}\/(?:\d{2}|2000):\d{2})(?:\s+s\.\s+(\d+))?
\* line 61: 'Mot. ' + m.group(1), m.group(2)
MotMatch(text, i) ==
    LET a == Lit(text, OneOf(text, i, {"m", "M"}), "ot")
        G1(k) == Plus(text, k, Space)
        End1(k) == Times(text, Session(text, G1(k)), Digit, 2)
        j == IF End1(Lit(text, a, "ion")) > 0 THEN Lit(text, a, "ion")
             ELSE IF End1(Lit(text, a, ".")) > 0 THEN Lit(text, a, ".")
             ELSE a
        g == PageGroup(text, End1(j))
    IN IF End1(j) = 0 THEN NoMatch
       ELSE Match(g.end, "Mot. " \o SubSeq(text, G1(j), End1(j) - 1), g.page)

\* the five families in the order of lines 52-61
Families == <<"NJA", "Prop", "SOU", "bet", "Mot">>

MatchAt(family, text, i) ==
    CASE family = "NJA" -> NJAMatch(text, i)
      [] family = "Prop" -> PropMatch(text, i)
      [] family = "SOU" -> SOUMatch(text, i)
      [] family = "bet" -> BetMatch(text, i)
      [] family = "Mot" -> MotMatch(text, i)

\* re.finditer: the matches of one family from position i on, left to right.
\* `found` holds every position from i on where the pattern matches, with its
\* match; the next match is the one at the first of these positions, and the
\* search goes on where that match ended.
RECURSIVE finditer(_, _, _)
EmitFrom(family, text, m) == <<<<m.key, m.page>>>> \o finditer(family, text, m.end)

EmitFirst(family, text, found) ==
    IF found = {} THEN <<>>
    ELSE EmitFrom(family, text, (CHOOSE p \in found : \A q \in found : p[1] <= q[1])[2])

finditer(family, text, i) ==
    EmitFirst(family, text,
              {p \in {<<k, MatchAt(family, text, k)>> : k \in i..Len(text)} : p[2].end > 0})

\* ------------------------------------------------------------ input domains
ItemId(i) == "Q" \o ToString(100 + i)
PdfUrl(i) == "https://www.domstol.se/d" \o ToString(i) \o ".pdf"
\* ORDER BY DESC(?date): row i is newer than row i + 1
DecisionDate(i) == "2020-0" \o ToString(9 - i) \o "-15T00:00:00Z"
Title(i) == "NJA decision " \o ToString(i)

\* One row of the discovery query's result: ?title is OPTIONAL.
Binding(i, titled) ==
    IF titled
    THEN [item |-> EntityUri(ItemId(i)), url |-> PdfUrl(i), date |-> DecisionDate(i),
          title |-> Title(i)]
    ELSE [item |-> EntityUri(ItemId(i)), url |-> PdfUrl(i), date |-> DecisionDate(i)]

\* The citation keys of the aggregation loop taken alone.
Keys == {"NJA 2019 s. 45", "Prop. 2005/06:55"}

RECURSIVE SeqsUpTo(_, _)
SeqsUpTo(S, n) ==
    IF n = 0 THEN {<<>>}
    ELSE LET shorter == SeqsUpTo(S, n - 1)
         IN shorter \cup {Append(s, x) : s \in {t \in shorter : Len(t) = n - 1}, x \in S}

\* A document is the list of the citations typeset in it. A citation is
\* typeset as its words, the whitespace the layout puts between two words, and
\* the page it cites (None when it cites no page).
Phrase(family, words, sep, page) ==
    [family |-> family, words |-> words, sep |-> sep, page |-> page]

RECURSIVE JoinWords(_, _)
JoinWords(words, sep) ==
    IF words = <<>> THEN ""
    ELSE IF Len(words) = 1 THEN words[1]
    ELSE words[1] \o sep \o JoinWords(Tail(words), sep)

\* the characters of one typeset citation
PhraseText(ph) ==
    JoinWords(ph.words, ph.sep)
    \o (IF ph.page = None THEN "" ELSE ph.sep \o "s." \o ph.sep \o ph.page)

\* pdfminer's extract_text (line 51): the citations of the document in the
\* order they are typeset, each followed by ", "
RECURSIVE extract_text(_)
extract_text(content) ==
    IF content = <<>> THEN ""
    ELSE PhraseText(Head(content)) \o ", " \o extract_text(Tail(content))

\* Mutant of extract_citations: the motions are scanned first.
extract_citations_MotionsFirst(pdf_file) ==
    LET text == extract_text(pdf_file)
    IN finditer("Mot", text, 1) \o finditer("NJA", text, 1) \o finditer("Prop", text, 1)
       \o finditer("SOU", text, 1) \o finditer("bet", text, 1)

\* lines 51-61: the pairs the generator yields, in the order it yields them
extract_citations(pdf_file) ==
    LET text == extract_text(pdf_file)
    IN finditer("NJA", text, 1) \o finditer("Prop", text, 1) \o finditer("SOU", text, 1)
       \o finditer("bet", text, 1) \o finditer("Mot", text, 1)

\* the citation a phrase stands for, as the knowledge base writes it
CitedKey(ph) ==
    CASE ph.family = "NJA" -> JoinWords(ph.words, " ")
      [] ph.family = "Prop" -> "Prop. " \o ph.words[2]
      [] ph.family = "SOU" -> JoinWords(ph.words, " ")
      [] ph.family = "bet" -> "bet. " \o ph.words[2]
      [] ph.family = "Mot" -> "Mot. " \o ph.words[2]

\* the page a phrase cites; a case citation ends with its own page number and
\* cites no other
CitedPage(ph) == IF ph.family = "NJA" THEN None ELSE ph.page

\* The citations typeset in the documents of the run.
Phrases ==
    {Phrase("NJA", <<"NJA", "2019", "s.", "45">>, " ", None),
     Phrase("NJA", <<"NJA", "2019", "s.", "45">>, "\r\n", None),
     Phrase("Prop", <<"prop.", "2005/06:55">>, " ", "12")}

Documents == SeqsUpTo(Phrases, MaxPairs)

\* what extract_citations yields for each of these documents, worked out once
Yields == [content \in Documents |-> extract_citations(content)]

\* Entities the knowledge base may return for a legal citation.
CandidateId(i) == "Q" \o ToString(i)
LookupResponses == {[i \in 1..n |-> EntityUri(CandidateId(i))] : n \in 0..MaxLookupRows}

\* ------------------------------------------------------------------- state
VARIABLES
    r,            \* bindings of the discovery query's result (line 92)
    idx,          \* position of the for loop over r (line 94)
    pc,           \* next step of the script
    raised,       \* the exception that ended the script, or None
    item, pdf,    \* lines 95-96
    statements,   \* line 97
    ref_title, ref_date, refs,   \* lines 100-113
    resp,         \* line 115
    citations,    \* line 119: defaultdict(set), in insertion order
    kpos,         \* position of the for loop over citations.items() (line 129)
    cache,        \* lru_cache of query_legal_citation: its entries (key and cached
                  \* return value), least recently used first
    out,          \* lines printed so far
    writes,       \* calls of WDItemEngine.write so far
    yielded,      \* history: pairs consumed from extract_citations for this decision
    trace         \* history: calls made so far, in order

vars == <<r, idx, pc, raised, item, pdf, statements, ref_title, ref_date, refs, resp,
          citations, kpos, cache, out, writes, yielded, trace>>

loopVars == <<item, pdf, statements, ref_title, ref_date, refs, resp, citations, kpos>>

\* ------------------------------------------------- defaultdict(set) (119-125)
EmptyDict == [keys |-> <<>>, pages |-> <<>>]

DictHas(d, k) == k \in Range(d.keys)

\* defaultdict.__getitem__: an unseen key is inserted with set()
DictTouch(d, k) ==
    IF DictHas(d, k) THEN d
    ELSE [keys |-> Append(d.keys, k), pages |-> d.pages @@ (k :> {})]

\* citations[citation].add(page)
DictAdd(d, k, page) ==
    LET e == DictTouch(d, k)
    IN [e EXCEPT !.pages[k] = @ \cup {page}]

\* Mutant of Truthy: the page is tested as a number, so "0" is false.
Truthy_ZeroIsFalse(page) == page # None /\ page # "" /\ page # "0"

\* Truth value of a page: None and the empty string are false.
Truthy(page) == page # None /\ page # ""

\* lines 122-125
AddPair(d, citation, page) ==
    IF Truthy(page) THEN DictAdd(d, citation, page) ELSE DictTouch(d, citation)

\* lines 119-125 over the first n pairs of a sequence
RECURSIVE Aggregate(_, _)
Aggregate(pairs, n) ==
    IF n = 0 THEN EmptyDict
    ELSE AddPair(Aggregate(pairs, n - 1), pairs[n][1], pairs[n][2])

\* ------------------------------------------ query_legal_citation (64-72)
\* line 72: the item ids of the rows
Targets(response) == [i \in 1..Len(response) |-> rpartition2(response[i])]

\* The cache is the list of its entries, least recently used first. An entry
\* holds a key and the list cached for it. A run of entries for the consecutive
\* keys WarmKey(from) .. WarmKey(to), all holding the same list, is written as
\* one item with from > 0.
WarmKey(i) == "SOU 1990:" \o ToString(i)

Entry(k, result) == [key |-> k, result |-> result, from |-> 0, to |-> 0]

Run(from, to, result) == [key |-> None, result |-> result, from |-> from, to |-> to]

IsRun(e) == e.from > 0

\* the keys query_legal_citation is called with when the cache is full
CalledKeys == {WarmKey(1), WarmKey(2), WarmKey(maxsize), WarmKey(maxsize + 1),
               WarmKey(maxsize + 2)}

\* n for the key WarmKey(n), worked out once for each of these keys
WarmIndex == [k \in CalledKeys |-> CHOOSE n \in 1..(maxsize + 2) : WarmKey(n) = k]

\* the position of k in the run e, or 0
RunIndex(e, k) ==
    IF k \in DOMAIN WarmIndex /\ WarmIndex[k] \in e.from..e.to THEN WarmIndex[k] ELSE 0

Holds(e, k) == IF IsRun(e) THEN RunIndex(e, k) > 0 ELSE e.key = k

\* the item e without its entry for k
Without(e, k) ==
    IF ~Holds(e, k) THEN <<e>>
    ELSE IF ~IsRun(e) THEN <<>>
    ELSE LET n == RunIndex(e, k)
         IN (IF e.from < n THEN <<Run(e.from, n - 1, e.result)>> ELSE <<>>)
            \o (IF n < e.to THEN <<Run(n + 1, e.to, e.result)>> ELSE <<>>)

RECURSIVE CacheLen(_)
CacheLen(entries) ==
    IF entries = <<>> THEN 0
    ELSE (IF IsRun(Head(entries)) THEN Head(entries).to - Head(entries).from + 1 ELSE 1)
         + CacheLen(Tail(entries))

RECURSIVE CacheRemove(_, _)
CacheRemove(entries, k) ==
    IF entries = <<>> THEN <<>>
    ELSE Without(Head(entries), k) \o CacheRemove(Tail(entries), k)

\* the list without its least recently used entry
DropOldest(entries) ==
    LET e == Head(entries)
    IN IF IsRun(e) /\ e.from < e.to
       THEN <<Run(e.from + 1, e.to, e.result)>> \o Tail(entries)
       ELSE Tail(entries)

CacheHas(entries, k) == \E i \in 1..Len(entries) : Holds(entries[i], k)

CacheGet(entries, k) == entries[CHOOSE i \in 1..Len(entries) : Holds(entries[i], k)].result

\* Mutant of CacheTouch: a hit does not refresh the entry (first in, first out).
CacheTouch_NoMove(entries, k) == entries

\* lru_cache hit: the entry becomes the most recently used
CacheTouch(entries, k) ==
    Append(CacheRemove(entries, k), Entry(k, CacheGet(entries, k)))

\* lru_cache miss: the new entry replaces the least recently used one when full
CacheInsert(entries, k, result) ==
    IF CacheLen(entries) >= maxsize
    THEN Append(DropOldest(entries), Entry(k, result))
    ELSE Append(entries, Entry(k, result))

\* ------------------------------------------------------- main loop (94-146)
\* one call: res is "ok" or "raise", val the sequence the call returned
Event(op, key, res, val) == [op |-> op, d |-> idx, key |-> key, res |-> res, val |-> val]

Diag(kind, citation, ids) == [kind |-> kind, item |-> item, citation |-> citation, ids |-> ids]

\* lines 102-107: the reference block of a decision that has a title
RefsWithTitle(url, title, date) ==
    {<<P_ref_url, url>>, <<P_title, title>>, <<P_date, "+" \o date>>, <<P_retrieved, utcnow>>}

\* lines 109-113: the reference block built in the except branch
RefsWithoutTitle(url, date) ==
    {<<P_ref_url, url>>, <<P_date, "+" \o date>>, <<P_retrieved, utcnow>>}

\* lines 138-139: WDItemID(target, 'P2860', references=refs) with its page qualifiers
Link(target, pages, references) ==
    [target |-> target, prop |-> P_cites,
     qualifiers |-> {<<P_page, page>> : page \in pages}, references |-> references]

\* line 135: the ids joined into the "multiple items" line
MultipleIds(targets) == [i \in 1..Len(r) |-> rpartition2(r[i].item)]

\* Mutant of Continue: the loop does not advance, the same binding is taken again.
Continue_SameBinding == /\ idx' = idx
                        /\ pc' = "refs"

\* `continue`, or the end of the loop body: the next binding, or the end of the script
Continue == /\ idx' = idx + 1
            /\ pc' = IF idx + 1 > Len(r) THEN "done" ELSE "refs"

\* the for loop of line 129 over a dict d, positioned at entry kp
AtKey(d, kp) == IF kp > Len(d.keys) THEN "write" ELSE "resolve"

Init ==
    /\ \E n \in 0..MaxDecisions : \E titled \in SUBSET (1..n) :
          r = [i \in 1..n |-> Binding(i, i \in titled)]
    /\ idx = 1
    /\ pc = IF Len(r) = 0 THEN "done" ELSE "refs"
    /\ raised = None
    /\ item = Unbound /\ pdf = Unbound
    /\ statements = Unbound
    /\ ref_title = Unbound /\ ref_date = Unbound /\ refs = Unbound
    /\ resp = Unbound
    /\ citations = Unbound
    /\ kpos = 0
    /\ cache = <<>>
    /\ out = <<>> /\ writes = <<>> /\ yielded = <<>> /\ trace = <<>>

\* Mutant of BuildRefs: line 97 is missing, the list of the previous
\* decision is kept.
BuildRefs_KeepsStatements ==
    /\ pc = "refs"
    /\ "title" \in DOMAIN r[idx]
    /\ item' = rpartition2(r[idx].item)
    /\ pdf' = r[idx].url
    /\ statements' = IF statements = Unbound THEN <<>> ELSE statements
    /\ ref_title' = r[idx].title
    /\ ref_date' = r[idx].date
    /\ refs' = RefsWithTitle(pdf', ref_title', ref_date')
    /\ pc' = "fetch"
    /\ yielded' = <<>>
    /\ UNCHANGED <<r, idx, raised, resp, citations, kpos, cache, out, writes, trace>>

\* lines 95-107: the binding has a title
BuildRefs ==
    /\ pc = "refs"
    /\ "title" \in DOMAIN r[idx]
    /\ item' = rpartition2(r[idx].item)
    /\ pdf' = r[idx].url
    /\ statements' = <<>>
    /\ ref_title' = r[idx].title
    /\ ref_date' = r[idx].date
    /\ refs' = RefsWithTitle(pdf', ref_title', ref_date')
    /\ pc' = "fetch"
    /\ yielded' = <<>>
    /\ UNCHANGED <<r, idx, raised, resp, citations, kpos, cache, out, writes, trace>>

\* lines 95-100, 108-113: binding['title'] raises KeyError before ref_date is
\* assigned, and the except branch reads the ref_date of an earlier iteration
BuildRefsNoTitle ==
    /\ pc = "refs"
    /\ "title" \notin DOMAIN r[idx]
    /\ ref_date # Unbound
    /\ item' = rpartition2(r[idx].item)
    /\ pdf' = r[idx].url
    /\ statements' = <<>>
    /\ refs' = RefsWithoutTitle(pdf', ref_date)
    /\ pc' = "fetch"
    /\ yielded' = <<>>
    /\ UNCHANGED <<r, idx, raised, ref_title, ref_date, resp, citations, kpos, cache,
                   out, writes, trace>>

\* lines 95-100, 108-111: no earlier iteration assigned ref_date, so the except
\* branch raises NameError, which nothing catches
BuildRefsNameError ==
    /\ pc = "refs"
    /\ "title" \notin DOMAIN r[idx]
    /\ ref_date = Unbound
    /\ item' = rpartition2(r[idx].item)
    /\ pdf' = r[idx].url
    /\ statements' = <<>>
    /\ pc' = "crashed"
    /\ raised' = "NameError"
    /\ yielded' = <<>>
    /\ UNCHANGED <<r, idx, ref_title, ref_date, refs, resp, citations, kpos, cache,
                   out, writes, trace>>

\* line 115: requests.get(pdf) returns
FetchOk ==
    /\ pc = "fetch"
    /\ \E content \in Documents : resp' = [content |-> content]
    /\ trace' = Append(trace, Event("fetch", None, "ok", <<>>))
    /\ pc' = "extract"
    /\ UNCHANGED <<r, idx, raised, item, pdf, statements, ref_title, ref_date, refs,
                   citations, kpos, cache, out, writes, yielded>>

\* Mutant of FetchFail: the `continue` of line 118 is missing.
FetchFail_FallsThrough ==
    /\ pc = "fetch"
    /\ trace' = Append(trace, Event("fetch", None, "raise", <<>>))
    /\ out' = Append(out, Diag("fetch_error", None, <<>>))
    /\ pc' = "extract"
    /\ UNCHANGED <<r, idx, raised, loopVars, cache, writes, yielded>>

\* lines 115-118: requests.get(pdf) raises
FetchFail ==
    /\ pc = "fetch"
    /\ trace' = Append(trace, Event("fetch", None, "raise", <<>>))
    /\ out' = Append(out, Diag("fetch_error", None, <<>>))
    /\ Continue
    /\ UNCHANGED <<r, raised, loopVars, cache, writes, yielded>>

\* lines 119-125: the generator is consumed to its end
ExtractOk ==
    /\ pc = "extract"
    /\ LET pairs == Yields[resp.content]
       IN /\ yielded' = pairs
          /\ citations' = Aggregate(pairs, Len(pairs))
    /\ trace' = Append(trace, Event("extract", None, "ok", citations'.keys))
    /\ kpos' = 1
    /\ pc' = AtKey(citations', 1)
    /\ UNCHANGED <<r, idx, raised, item, pdf, statements, ref_title, ref_date, refs, resp,
                   cache, out, writes>>

\* Mutant of ExtractFail: the `continue` of line 128 is missing.
ExtractFail_FallsThrough ==
    /\ pc = "extract"
    /\ LET pairs == Yields[resp.content]
       IN /\ yielded' = pairs
          /\ citations' = Aggregate(pairs, Len(pairs))
    /\ trace' = Append(trace, Event("extract", None, "raise", <<>>))
    /\ out' = Append(out, Diag("parse_error", None, <<>>))
    /\ kpos' = 1
    /\ pc' = AtKey(citations', 1)
    /\ UNCHANGED <<r, idx, raised, item, pdf, statements, ref_title, ref_date, refs, resp,
                   cache, writes>>

\* lines 119-128: extract_text raises (n = 0), or the iteration raises after
\* n pairs were consumed
ExtractFail ==
    /\ pc = "extract"
    /\ \E n \in 0..Len(Yields[resp.content]) :
          /\ yielded' = SubSeq(Yields[resp.content], 1, n)
          /\ citations' = Aggregate(yielded', n)
    /\ trace' = Append(trace, Event("extract", None, "raise", <<>>))
    /\ out' = Append(out, Diag("parse_error", None, <<>>))
    /\ Continue
    /\ UNCHANGED <<r, raised, item, pdf, statements, ref_title, ref_date, refs, resp, kpos,
                   cache, writes>>

\* Mutant of Handle: the check of line 134 is missing, the first of several
\* candidates is linked.
Handle_LinksFirstOfSeveral(citation, targets) ==
    /\ IF Len(targets) = 0
       THEN /\ out' = Append(out, Diag("not_found", citation, <<>>))
            /\ statements' = statements
       ELSE /\ out' = out
            /\ statements' = Append(statements, Link(targets[1], citations.pages[citation], refs))
    /\ kpos' = kpos + 1
    /\ pc' = AtKey(citations, kpos + 1)

\* lines 131-139: what the loop body does with the targets of one citation
Handle(citation, targets) ==
    /\ IF Len(targets) = 0
       THEN /\ out' = Append(out, Diag("not_found", citation, <<>>))
            /\ statements' = statements
       ELSE IF Len(targets) > 1
       THEN /\ out' = Append(out, Diag("multiple", citation, MultipleIds(targets)))
            /\ statements' = statements
       ELSE /\ out' = out
            /\ statements' = Append(statements, Link(targets[1], citations.pages[citation], refs))
    /\ kpos' = kpos + 1
    /\ pc' = AtKey(citations, kpos + 1)

\* query_legal_citation(citation), cache hit: the cached list is returned,
\* no query is sent
QueryCached(citation) ==
    /\ CacheHas(cache, citation)
    /\ cache' = CacheTouch(cache, citation)
    /\ trace' = Append(trace, Event("resolve", citation, "ok", CacheGet(cache, citation)))

\* query_legal_citation(citation), cache miss (lines 70-72): the query is sent,
\* its result is cached and returned
QueryLookup(citation, response) ==
    /\ ~CacheHas(cache, citation)
    /\ cache' = CacheInsert(cache, citation, Targets(response))
    /\ trace' = trace \o <<Event("lookup", citation, "ok", response),
                           Event("resolve", citation, "ok", Targets(response))>>

\* query_legal_citation(citation), cache miss (line 71): execute_sparql_query
\* raises and nothing is cached
QueryRaise(citation) ==
    /\ ~CacheHas(cache, citation)
    /\ trace' = Append(trace, Event("lookup", citation, "raise", <<>>))
    /\ UNCHANGED cache

\* lines 129-139, the call of line 130 is a cache hit
ResolveCached ==
    /\ pc = "resolve"
    /\ LET citation == citations.keys[kpos]
       IN /\ QueryCached(citation)
          /\ Handle(citation, CacheGet(cache, citation))
    /\ UNCHANGED <<r, idx, raised, item, pdf, ref_title, ref_date, refs, resp, citations,
                   writes, yielded>>

\* lines 129-139, the call of line 130 sends the query
ResolveLookup ==
    /\ pc = "resolve"
    /\ LET citation == citations.keys[kpos]
       IN \E response \in LookupResponses :
             /\ QueryLookup(citation, response)
             /\ Handle(citation, Targets(response))
    /\ UNCHANGED <<r, idx, raised, item, pdf, ref_title, ref_date, refs, resp, citations,
                   writes, yielded>>

\* lines 129-130: the query raises and nothing in the script catches it
ResolveLookupFail ==
    /\ pc = "resolve"
    /\ QueryRaise(citations.keys[kpos])
    /\ pc' = "crashed"
    /\ raised' = "lookup"
    /\ UNCHANGED <<r, idx, loopVars, out, writes, yielded>>

\* line 140: statements is empty
NoWrite ==
    /\ pc = "write"
    /\ statements = <<>>
    /\ Continue
    /\ UNCHANGED <<r, raised, loopVars, cache, out, writes, yielded, trace>>

\* lines 140-141: the constructor WDItemEngine(...) raises; it is called before
\* the try of line 142, so nothing is printed and the exception ends the script
ConstructFail ==
    /\ pc = "write"
    /\ statements # <<>>
    /\ trace' = Append(trace, Event("construct", None, "raise", <<>>))
    /\ pc' = "crashed"
    /\ raised' = "construct"
    /\ UNCHANGED <<r, idx, loopVars, cache, out, writes, yielded>>

\* lines 140-143: the item is constructed and the write succeeds
WriteOk ==
    /\ pc = "write"
    /\ statements # <<>>
    /\ writes' = Append(writes, [item |-> item, data |-> statements, ok |-> TRUE])
    /\ trace' = Append(trace, Event("write", None, "ok", <<>>))
    /\ Continue
    /\ UNCHANGED <<r, raised, loopVars, cache, out, yielded>>

\* lines 140-146: the item is constructed and the write raises; the script
\* prints and re-raises
WriteFail ==
    /\ pc = "write"
    /\ statements # <<>>
    /\ writes' = Append(writes, [item |-> item, data |-> statements, ok |-> FALSE])
    /\ trace' = Append(trace, Event("write", None, "raise", <<>>))
    /\ out' = Append(out, Diag("edit_error", None, <<>>))
    /\ pc' = "crashed"
    /\ raised' = "write"
    /\ UNCHANGED <<r, idx, loopVars, cache, yielded>>

Next ==
    \/ BuildRefs \/ BuildRefsNoTitle \/ BuildRefsNameError
    \/ FetchOk \/ FetchFail
    \/ ExtractOk \/ ExtractFail
    \/ ResolveCached \/ ResolveLookup \/ ResolveLookupFail
    \/ NoWrite \/ ConstructFail \/ WriteOk \/ WriteFail

Spec == Init /\ [][Next]_vars

\* ---------------------------------- the aggregation loop alone (119-125)
MaxAggPairs == 3

\* every key with an absent page, page "0" and another page
AggPairs == Keys \X {None, "0", "12"}

InitAggregate ==
    /\ r = <<>>
    /\ idx = 1
    /\ pc = "aggregate"
    /\ raised = None
    /\ item = Unbound /\ pdf = Unbound
    /\ statements = <<>>
    /\ ref_title = Unbound /\ ref_date = Unbound /\ refs = Unbound
    /\ resp = Unbound
    /\ citations = EmptyDict
    /\ kpos = 0
    /\ cache = <<>>
    /\ out = <<>> /\ writes = <<>> /\ yielded = <<>> /\ trace = <<>>

\* lines 121-125: one iteration of the loop over the generator
AggregateStep ==
    /\ pc = "aggregate"
    /\ Len(yielded) < MaxAggPairs
    /\ \E pair \in AggPairs :
          /\ yielded' = Append(yielded, pair)
          /\ citations' = AddPair(citations, pair[1], pair[2])
    /\ UNCHANGED <<r, idx, pc, raised, item, pdf, statements, ref_title, ref_date, refs, resp,
                   kpos, cache, out, writes, trace>>

SpecAggregate == InitAggregate /\ [][AggregateStep]_vars

\* ------------------------------ extract_citations alone (47-61, 119-125)
\* One document of any of the five families is read: the generator is advanced
\* one pair at a time and each pair is aggregated.
MaxPhrases == 2

ExtractPhrases ==
    {Phrase("NJA", <<"NJA", "2019", "s.", "45">>, " ", None),
     Phrase("NJA", <<"NJA", "2019", "s.", "45">>, "\r\n", "3"),
     Phrase("NJA", <<"NJA", "2012", "s", "7", "IV">>, " \f", None),
     Phrase("Prop", <<"Prop.", "2005/06:55">>, " ", None),
     Phrase("Prop", <<"proposition", "2005/06:55">>, " \n", "12"),
     Phrase("Prop", <<"prop", "1999/2000:100">>, " ", "0"),
     Phrase("SOU", <<"SOU", "1990:5">>, "\t ", None),
     Phrase("SOU", <<"SOU", "1990:5">>, " ", "7"),
     Phrase("bet", <<"bet.", "2005/06:JuU12">>, " ", "3"),
     Phrase("bet", <<"Bet", "1999/2000:FöU3">>, "\f", None),
     Phrase("Mot", <<"Mot.", "2005/06:12">>, " ", None),
     Phrase("Mot", <<"motion", "2005/06:12">>, "\r ", "4")}

ExtractDocuments == SeqsUpTo(ExtractPhrases, MaxPhrases)

\* what extract_citations yields for each of these documents, worked out once
ExtractYields == [content \in ExtractDocuments |-> extract_citations(content)]

InitExtract ==
    /\ r = <<>>
    /\ idx = 1
    /\ pc = "generate"
    /\ raised = None
    /\ item = Unbound /\ pdf = Unbound
    /\ statements = <<>>
    /\ ref_title = Unbound /\ ref_date = Unbound /\ refs = Unbound
    /\ \E content \in ExtractDocuments : resp = [content |-> content]
    /\ citations = EmptyDict
    /\ kpos = 0
    /\ cache = <<>>
    /\ out = <<>> /\ writes = <<>> /\ yielded = <<>> /\ trace = <<>>

\* lines 120-125: the generator yields its next pair and the pair is aggregated
GeneratorNext ==
    /\ pc = "generate"
    /\ Len(yielded) < Len(ExtractYields[resp.content])
    /\ LET pair == ExtractYields[resp.content][Len(yielded) + 1]
       IN /\ yielded' = Append(yielded, pair)
          /\ citations' = AddPair(citations, pair[1], pair[2])
    /\ UNCHANGED <<r, idx, pc, raised, item, pdf, statements, ref_title, ref_date, refs, resp,
                   kpos, cache, out, writes, trace>>

\* line 120: the generator is exhausted and the loop ends
GeneratorEnd ==
    /\ pc = "generate"
    /\ Len(yielded) = Len(ExtractYields[resp.content])
    /\ pc' = "generated"
    /\ UNCHANGED <<r, idx, raised, loopVars, cache, out, writes, yielded, trace>>

NextExtract == GeneratorNext \/ GeneratorEnd

SpecExtract == InitExtract /\ [][NextExtract]_vars

\* ------------------- query_legal_citation alone, with its cache full (64-72)
\* The state of a run that has resolved maxsize distinct keys, WarmKey(1) first
\* and WarmKey(maxsize) last, each once and each with one candidate. The calls
\* that follow are for the oldest, the second oldest and the newest of these keys
\* and for two keys not resolved before.
MaxCalls == 3

WarmResponse == <<EntityUri(CandidateId(1))>>

CallResponses == {<<>>, <<EntityUri(CandidateId(1)), EntityUri(CandidateId(2))>>}

\* the calls for WarmKey(from) .. WarmKey(to) in this order, each one sending
\* the query, which returned `response`, written as one item of the history
WarmUp(from, to, response) ==
    [op |-> "warmup", d |-> 1, key |-> None, res |-> "ok", val |-> response,
     from |-> from, to |-> to]

InitCache ==
    /\ r = <<>>
    /\ idx = 1
    /\ pc = "query"
    /\ raised = None
    /\ item = Unbound /\ pdf = Unbound
    /\ statements = <<>>
    /\ ref_title = Unbound /\ ref_date = Unbound /\ refs = Unbound
    /\ resp = Unbound
    /\ citations = EmptyDict
    /\ kpos = 0
    /\ cache = <<Run(1, maxsize, Targets(WarmResponse))>>
    /\ out = <<>> /\ writes = <<>> /\ yielded = <<>>
    /\ trace = <<WarmUp(1, maxsize, WarmResponse)>>

\* one more call of query_legal_citation; kpos counts the calls
CallCached ==
    /\ pc = "query"
    /\ kpos < MaxCalls
    /\ \E citation \in CalledKeys : QueryCached(citation)
    /\ kpos' = kpos + 1
    /\ UNCHANGED <<r, idx, pc, raised, item, pdf, statements, ref_title, ref_date, refs, resp,
                   citations, out, writes, yielded>>

CallLookup ==
    /\ pc = "query"
    /\ kpos < MaxCalls
    /\ \E citation \in CalledKeys : \E response \in CallResponses :
          QueryLookup(citation, response)
    /\ kpos' = kpos + 1
    /\ UNCHANGED <<r, idx, pc, raised, item, pdf, statements, ref_title, ref_date, refs, resp,
                   citations, out, writes, yielded>>

\* the query raises: the run ends, as in ResolveLookupFail
CallRaise ==
    /\ pc = "query"
    /\ kpos < MaxCalls
    /\ \E citation \in CalledKeys : QueryRaise(citation)
    /\ kpos' = kpos + 1
    /\ pc' = "crashed"
    /\ raised' = "lookup"
    /\ UNCHANGED <<r, idx, item, pdf, statements, ref_title, ref_date, refs, resp,
                   citations, out, writes, yielded>>

NextCache == CallCached \/ CallLookup \/ CallRaise

SpecCache == InitCache /\ [][NextCache]_vars

\* ------------------------------------------------------- reading the history
ItemOf(d) == ItemId(d)

EventsOf(d, op) == SelectSeq(trace, LAMBDA e : e.d = d /\ e.op = op)

\* the resolve calls of decision d that returned exactly one candidate
UniqueResolved(d) ==
    SelectSeq(trace, LAMBDA e : e.d = d /\ e.op = "resolve" /\ Len(e.val) = 1)

\* the non-absent pages extract_citations yielded with key k for this decision
PagesYielded(k) == {q[2] : q \in {p \in Range(yielded) : p[1] = k /\ p[2] # None}}

DiagsOf(d, kind) == SelectSeq(out, LAMBDA l : l.item = ItemOf(d) /\ l.kind = kind)

AllDiagsOf(d) == SelectSeq(out, LAMBDA l : l.item = ItemOf(d))

\* the distinct keys extract_citations yielded for this decision
KeysYielded == {p[1] : p \in Range(yielded)}

\* the calls of WDItemEngine.write, in order
WriteEvents == SelectSeq(trace, LAMBDA e : e.op = "write")

\* item e of the history holds a call of query_legal_citation for k
Calls(e, k) ==
    IF e.op = "warmup" THEN RunIndex(e, k) > 0
    ELSE e.op \in {"lookup", "resolve"} /\ e.key = k

\* the keys query_legal_citation was called with in item e of the history
KeysOfEvent(e) ==
    IF e.op = "warmup" THEN {WarmKey(n) : n \in e.from..e.to}
    ELSE IF e.op \in {"lookup", "resolve"} THEN {e.key}
    ELSE {}

\* the items of t in which a query was sent for k
LookupIdx(t, k) == {i \in 1..Len(t) : t[i].op \in {"lookup", "warmup"} /\ Calls(t[i], k)}

\* the result of the query sent in item e
ResultOf(e) == IF e.res = "ok" THEN Targets(e.val) ELSE <<>>

CallIdx(t, k) == {i \in 1..Len(t) : Calls(t[i], k)}

\* the number of distinct keys other than k that query_legal_citation was
\* called with after the latest call for k
OtherKeysSince(t, k) ==
    LET i == Max(CallIdx(t, k))
        later == UNION {KeysOfEvent(t[j]) : j \in (i + 1)..Len(t)} \ {k}
    IN IF t[i].op = "warmup"
       THEN (t[i].to - RunIndex(t[i], k))
            + Cardinality({x \in later : RunIndex(t[i], x) <= RunIndex(t[i], k)})
       ELSE Cardinality(later)

\* the pairs a document's citations stand for: family by family in the order
\* of Families, and within a family in the order they are typeset
RECURSIVE CitedPairs(_, _)
CitedPairs(content, f) ==
    IF f > Len(Families) THEN <<>>
    ELSE LET own == SelectSeq(content, LAMBDA ph : ph.family = Families[f])
         IN [i \in 1..Len(own) |-> <<CitedKey(own[i]), CitedPage(own[i])>>]
            \o CitedPairs(content, f + 1)

\* the family a yielded key belongs to, read off its first letters
FamilyOfKey(key) ==
    CHOOSE f \in 1..Len(Families) :
        SubSeq(key, 1, Len(Families[f])) = Families[f]

\* s holds sub somewhere
Contains(s, sub) == \E i \in 1..Len(s) : Lit(s, i, sub) > 0

\* the document typesets the same case citation twice
SameNJATwice(content) ==
    \E i, j \in 1..Len(content) :
        /\ i < j
        /\ content[i].family = "NJA" /\ content[j].family = "NJA"
        /\ CitedKey(content[i]) = CitedKey(content[j])

\* the calls of query_legal_citation made for decision d, returned or raised
ResolverCalls(d) ==
    SelectSeq(trace, LAMBDA e : /\ e.d = d
                                /\ \/ e.op = "resolve"
                                   \/ e.op = "lookup" /\ e.res = "raise")

\* the place of a call in the loop body: fetch, extract, resolve, write
Rank(e) ==
    CASE e.op = "fetch" -> 1
      [] e.op = "extract" -> 2
      [] e.op \in {"lookup", "resolve"} -> 3
      [] e.op \in {"construct", "write"} -> 4

\* ------------------------------------------------------------------ claims

\* C1: while a decision's keys are resolved, its statement list holds one link
\* for each key whose resolve call returned exactly one candidate, in order, and
\* nothing for a key that returned none or several: the link's target is that
\* candidate and its page qualifiers are the pages yielded with that key.
C1_CardinalityPolicy ==
    pc \in {"resolve", "write"} =>
        LET u == UniqueResolved(idx)
        IN /\ Len(statements) = Len(u)
           /\ \A i \in 1..Len(u) :
                 /\ statements[i].target = u[i].val[1]
                 /\ statements[i].qualifiers = {<<P_page, p>> : p \in citations.pages[u[i].key]}
                 /\ statements[i].qualifiers = {<<P_page, p>> : p \in PagesYielded(u[i].key)}

C1_Witness ==
    /\ pc = "write"
    /\ Len(statements) = 1
    /\ statements[1].qualifiers # {}
    /\ \E i \in 1..Len(trace) :
          trace[i].d = idx /\ trace[i].op = "resolve" /\ Len(trace[i].val) > 1

\* C2: a write step that fails, in the constructor of the item or in its write
\* call, is the last call of the run: the edit-error line for that decision is
\* the last line printed, the exception ends the script and no later decision is
\* fetched, extracted, resolved or written.
C2_WriteFailureHalts ==
    \A i \in 1..Len(trace) :
        (trace[i].op \in {"construct", "write"} /\ trace[i].res = "raise") =>
            /\ i = Len(trace)
            /\ pc = "crashed" /\ raised \in {"construct", "write"}
            /\ idx = trace[i].d
            /\ out # <<>>
            /\ Last(out).kind = "edit_error" /\ Last(out).item = ItemOf(trace[i].d)
            /\ ~ENABLED Next

\* C3: a fetch that raises is the only call made for its decision: no
\* extraction, no resolve, no lookup and no write; exactly one line is printed
\* for the decision, the fetch-error line, and the loop moves to the next binding.
C3_FetchFailureSkipsDecision ==
    \A i \in 1..Len(trace) :
        (trace[i].op = "fetch" /\ trace[i].res = "raise") =>
            LET d == trace[i].d
            IN /\ \A j \in 1..Len(trace) : trace[j].d = d => j = i
               /\ Len(DiagsOf(d, "fetch_error")) = 1
               /\ Len(AllDiagsOf(d)) = 1
               /\ Len(SelectSeq(writes, LAMBDA w : w.item = ItemOf(d))) = 0
               /\ idx > d
               /\ i = Len(trace) => /\ raised = None
                                     /\ pc \in {"refs", "fetch", "done"}
                                     /\ pc = "done" <=> d = Len(r)

C3_Witness ==
    \E i \in 1..Len(trace) :
        /\ trace[i].op = "fetch" /\ trace[i].res = "raise"
        /\ i < Len(trace)
        /\ trace[i + 1].d = trace[i].d + 1
        /\ Last(trace).op = "write"

\* C4: an extraction that raises ends its decision: the parse-error line is
\* printed, no resolve, lookup or write is made for the decision whatever was
\* collected before the failure, and the loop moves to the next binding.
C4_ParseFailureSkipsDecision ==
    \A i \in 1..Len(trace) :
        (trace[i].op = "extract" /\ trace[i].res = "raise") =>
            LET d == trace[i].d
            IN /\ \A j \in 1..Len(trace) :
                     trace[j].d = d => trace[j].op \in {"fetch", "extract"}
               /\ Len(DiagsOf(d, "parse_error")) = 1
               /\ Len(AllDiagsOf(d)) = 1
               /\ Len(SelectSeq(writes, LAMBDA w : w.item = ItemOf(d))) = 0
               /\ idx > d
               /\ i = Len(trace) => /\ raised = None
                                     /\ pc \in {"refs", "fetch", "done"}
                                     /\ pc = "done" <=> d = Len(r)

C4_Witness ==
    /\ trace # <<>>
    /\ Last(trace).op = "extract" /\ Last(trace).res = "raise"
    /\ idx = Last(trace).d + 1
    /\ pc = "fetch"
    /\ Len(citations.keys) = 2

\* C5: a lookup that raises does not end the run: the script never stops on
\* an exception raised by the lookup.
C5_LookupFailureRecoverable ==
    \A i \in 1..Len(trace) :
        (trace[i].op = "lookup" /\ trace[i].res = "raise") =>
            (pc # "crashed" /\ raised = None)

\* C6: a binding without a title never makes the script fail, and the
\* reference block built for it holds the decision's own URL, its own date and
\* the retrieval date.
C6_NoTitleProvenance ==
    /\ raised # "NameError"
    /\ (pc = "fetch" /\ "title" \notin DOMAIN r[idx]) =>
          refs = {<<P_ref_url, r[idx].url>>, <<P_date, "+" \o r[idx].date>>,
                  <<P_retrieved, utcnow>>}

\* C7 as stated: a query is sent for a key only when none was sent for that
\* key before in the run, and every call returns the result of that one query.
C7_AtMostOneLookup ==
    [][\A n \in (Len(trace) + 1)..Len(trace') :
          /\ trace'[n].op = "lookup" => LookupIdx(trace, trace'[n].key) = {}
          /\ trace'[n].op = "resolve" =>
                LET sent == LookupIdx(trace', trace'[n].key)
                IN /\ Cardinality(sent) = 1
                   /\ trace'[n].val = ResultOf(trace'[Max(sent)])]_vars

\* C7 as amended: a query is sent for a key only when the key was not resolved
\* before in the run or at least maxsize distinct other keys were resolved since
\* its latest call, and every call returns the result of the latest query sent
\* for its key.
C7_LookupOnlyAfterEviction ==
    [][\A n \in (Len(trace) + 1)..Len(trace') :
          /\ trace'[n].op = "lookup" =>
                \/ CallIdx(trace, trace'[n].key) = {}
                \/ OtherKeysSince(trace, trace'[n].key) >= maxsize
          /\ trace'[n].op = "resolve" =>
                LET sent == LookupIdx(trace', trace'[n].key)
                IN /\ sent # {}
                   /\ trace'[n].val = ResultOf(trace'[Max(sent)])]_vars

\* After a new key was resolved, the second oldest key is served from the cache:
\* maxsize - 1 distinct other keys were resolved since its call.
C7_Witness ==
    /\ pc = "query"
    /\ Len(trace) = 4
    /\ trace[2].op = "lookup" /\ trace[2].key = WarmKey(maxsize + 1)
    /\ trace[4].op = "resolve" /\ trace[4].key = WarmKey(2)
    /\ OtherKeysSince(SubSeq(trace, 1, 3), WarmKey(2)) = maxsize - 1

\* C8: after any sequence of pairs the aggregated map holds each distinct key of
\* the sequence once and no other key, and a key's page set is the set of the
\* non-absent pages yielded with it: empty for a key yielded only without a
\* page, and holding "0" when page "0" was yielded.
C8_AggregatedMap ==
    pc = "aggregate" =>
        /\ Range(citations.keys) = KeysYielded
        /\ Len(citations.keys) = Cardinality(KeysYielded)
        /\ DOMAIN citations.pages = KeysYielded
        /\ \A k \in KeysYielded : citations.pages[k] = PagesYielded(k)

C8_Witness ==
    /\ pc = "aggregate"
    /\ Len(yielded) = 3
    /\ <<"Prop. 2005/06:55", "0">> \in Range(yielded)
    /\ citations.keys = <<"NJA 2019 s. 45", "Prop. 2005/06:55">>
    /\ citations.pages["NJA 2019 s. 45"] = {}
    /\ citations.pages["Prop. 2005/06:55"] = {"0", "12"}

\* C9: every resolve call that returns several candidates prints one
\* ambiguity line for its decision and key, and every ambiguity line lists the
\* candidates returned for its key.
C9_AmbiguityListsCandidates ==
    /\ \A i \in 1..Len(trace) :
          (trace[i].op = "resolve" /\ Len(trace[i].val) > 1) =>
              Len(SelectSeq(out, LAMBDA l : /\ l.kind = "multiple"
                                            /\ l.item = ItemOf(trace[i].d)
                                            /\ l.citation = trace[i].key)) = 1
    /\ \A j \in 1..Len(out) :
          out[j].kind = "multiple" =>
              \E i \in 1..Len(trace) :
                  /\ trace[i].op = "resolve"
                  /\ trace[i].key = out[j].citation
                  /\ ItemOf(trace[i].d) = out[j].item
                  /\ out[j].ids = trace[i].val

\* C10: the write calls are, in order, one for each decision that finished its
\* resolve loop with at least one uniquely resolved key and none for any other
\* decision: each is made once, on the decision's own entity, with one link per
\* uniquely resolved key of that decision; an item whose constructor raised was
\* constructed once, for such a decision, on its entity and with its links.
C10_WriteIffStatements ==
    /\ Len(writes) = Len(WriteEvents)
    /\ \A j \in 1..Len(WriteEvents) :
          LET d == WriteEvents[j].d
              u == UniqueResolved(d)
          IN /\ writes[j].item = ItemOf(d)
             /\ Len(u) > 0
             /\ Len(writes[j].data) = Len(u)
             /\ \A i \in 1..Len(u) : writes[j].data[i].target = u[i].val[1]
             /\ \A j2 \in 1..Len(WriteEvents) : WriteEvents[j2].d = d => j2 = j
    /\ \A i \in 1..Len(trace) :
          trace[i].op = "construct" =>
              LET u == UniqueResolved(trace[i].d)
              IN /\ i = Len(trace)
                 /\ Len(EventsOf(trace[i].d, "write")) = 0
                 /\ item = ItemOf(trace[i].d)
                 /\ Len(u) > 0
                 /\ Len(statements) = Len(u)
                 /\ \A n \in 1..Len(u) : statements[n].target = u[n].val[1]
    /\ \A d \in 1..Len(r) :
          (d < idx /\ Len(UniqueResolved(d)) > 0) =>
              \E j \in 1..Len(WriteEvents) : WriteEvents[j].d = d

C10_Witness ==
    /\ pc = "done"
    /\ Len(r) = 2
    /\ Len(writes) = 1
    /\ writes[1].item = ItemOf(2)
    /\ Len(EventsOf(1, "resolve")) = 1
    /\ Len(EventsOf(2, "resolve")) = 2

\* C11: a document that typesets the same case citation twice, in whatever
\* layout, gives one aggregated key for it, the citation with single spaces,
\* with no page; when that key resolves to one candidate there is one link to
\* the candidate without qualifiers, and the decision has as many links without
\* qualifiers as it has uniquely resolved keys without a page.
C11_NJATwiceOneLink ==
    (pc \in {"resolve", "write"} /\ SameNJATwice(resp.content)) =>
        /\ {k \in Range(citations.keys) : SubSeq(k, 1, 3) = "NJA"}
              = {CitedKey(ph) : ph \in {q \in Range(resp.content) : q.family = "NJA"}}
        /\ \A k \in Range(citations.keys) :
              SubSeq(k, 1, 3) = "NJA" =>
                  /\ Cardinality({n \in 1..Len(citations.keys) : citations.keys[n] = k}) = 1
                  /\ citations.pages[k] = {}
                  /\ \A n \in 1..Len(trace) :
                        (/\ trace[n].d = idx /\ trace[n].op = "resolve"
                         /\ trace[n].key = k /\ Len(trace[n].val) = 1) =>
                            Cardinality({m \in 1..Len(statements) :
                                            /\ statements[m].target = trace[n].val[1]
                                            /\ statements[m].qualifiers = {}}) = 1
        /\ Len(SelectSeq(statements, LAMBDA st : st.qualifiers = {}))
              = Len(SelectSeq(trace, LAMBDA e : /\ e.d = idx /\ e.op = "resolve"
                                                /\ Len(e.val) = 1
                                                /\ citations.pages[e.key] = {}))

\* the citation is typeset once on one line and once across lines
C11_Witness ==
    /\ pc = "write"
    /\ Len(resp.content) = 2
    /\ SameNJATwice(resp.content)
    /\ resp.content[1].sep # resp.content[2].sep
    /\ citations.keys = <<"NJA 2019 s. 45">>
    /\ Len(statements) = 1
    /\ statements[1].target = CandidateId(1)
    /\ statements[1].qualifiers = {}

\* C12: every pair yielded for a bill, official report, committee report or
\* motion holds the key of a citation typeset in the document, without the page
\* marker, together with the page that citation cites, as a string, or None; and
\* once the generator is exhausted every such citation of the document has
\* yielded its key with its page, the same key with and without a page.
C12_KeyWithoutPage ==
    pc \in {"generate", "generated"} =>
        /\ \A n \in 1..Len(yielded) :
              FamilyOfKey(yielded[n][1]) > 1 =>
                  /\ ~Contains(yielded[n][1], "s.")
                  /\ \E i \in 1..Len(resp.content) :
                        /\ resp.content[i].family # "NJA"
                        /\ yielded[n] = <<CitedKey(resp.content[i]), resp.content[i].page>>
        /\ pc = "generated" =>
              \A i \in 1..Len(resp.content) :
                  resp.content[i].family # "NJA" =>
                      <<CitedKey(resp.content[i]), resp.content[i].page>> \in Range(yielded)

\* the same bill is cited with a page and without one
C12_Witness ==
    /\ pc = "generated"
    /\ yielded = <<<<"Prop. 2005/06:55", "12">>, <<"Prop. 2005/06:55", None>>>>
    /\ citations.pages["Prop. 2005/06:55"] = {"12"}

\* C13: every link written for a decision holds in its reference block that
\* decision's own document URL and own decision date, and no other URL or date.
C13_OwnProvenance ==
    \A j \in 1..Len(WriteEvents) :
        LET d == WriteEvents[j].d
        IN \A n \in 1..Len(writes[j].data) :
              LET references == writes[j].data[n].references
              IN /\ {v[2] : v \in {w \in references : w[1] = P_ref_url}} = {r[d].url}
                 /\ {v[2] : v \in {w \in references : w[1] = P_date}} = {"+" \o r[d].date}

\* C14: once the resolve loop of a decision whose extraction succeeded is over,
\* query_legal_citation was called for every aggregated key of the decision, once
\* each and in the order of the map, and the uniquely resolved keys of a finished
\* decision were written.
C14_EveryKeyResolved ==
    \A d \in 1..Len(r) :
        LET ex == EventsOf(d, "extract")
        IN (/\ Len(ex) = 1
            /\ ex[1].res = "ok"
            /\ d < idx \/ pc \in {"write", "done", "crashed"}) =>
               /\ [n \in 1..Len(ResolverCalls(d)) |-> ResolverCalls(d)[n].key] = ex[1].val
               /\ (d < idx /\ Len(UniqueResolved(d)) > 0) => Len(EventsOf(d, "write")) = 1

\* C15: the calls of the run are made decision by decision in the order of the
\* discovery result, and for one decision in the order fetch, extract, resolve,
\* write; a decision is fetched, extracted and written at most once, and it is
\* written only after every one of its aggregated keys was resolved.
C15_StepOrder ==
    /\ \A m, n \in 1..Len(trace) :
          m < n => /\ trace[m].d <= trace[n].d
                   /\ trace[m].d = trace[n].d => Rank(trace[m]) <= Rank(trace[n])
    /\ \A n \in 1..Len(trace) : trace[n].d \in 1..Len(r) /\ trace[n].d <= idx
    /\ \A d \in 1..Len(r) :
          /\ \A op \in {"fetch", "extract", "write"} : Len(EventsOf(d, op)) <= 1
          /\ Len(EventsOf(d, "extract")) = 1 => Len(EventsOf(d, "fetch")) = 1
          /\ Len(EventsOf(d, "write")) = 1 =>
                /\ Len(EventsOf(d, "extract")) = 1
                /\ [n \in 1..Len(EventsOf(d, "resolve")) |-> EventsOf(d, "resolve")[n].key]
                      = EventsOf(d, "extract")[1].val

\* two decisions, each fetched, extracted, resolved (the first for two keys)
\* and written
C15_Witness ==
    /\ pc = "done"
    /\ Len(r) = 2
    /\ Len(EventsOf(1, "resolve")) = 2
    /\ Len(EventsOf(1, "write")) = 1
    /\ Len(EventsOf(2, "write")) = 1

\* C16: the pairs yielded so far are the first pairs of the list that holds the
\* document's case citations, then its bills, official reports, committee
\* reports and motions, each family in the order it is typeset; the exhausted
\* generator has yielded the whole list.
C16_FamilyOrder ==
    pc \in {"generate", "generated"} =>
        LET all == CitedPairs(resp.content, 1)
        IN /\ Len(yielded) <= Len(all)
           /\ yielded = SubSeq(all, 1, Len(yielded))
           /\ \A m, n \in 1..Len(yielded) :
                 m < n => FamilyOfKey(yielded[m][1]) <= FamilyOfKey(yielded[n][1])
           /\ pc = "generated" => yielded = all

\* a motion typeset before a case citation is yielded after it
C16_Witness ==
    /\ pc = "generated"
    /\ Len(resp.content) = 2
    /\ resp.content[1].family = "Mot" /\ resp.content[2].family = "NJA"
    /\ yielded = <<<<"NJA 2019 s. 45", None>>, <<"Mot. 2005/06:12", None>>>>

====
